---------------------------- MODULE Spec2Model ----------------------------
(***************************************************************************)
(* A model of the game tree searching library: the GamePosition and        *)
(* GameHandler contracts (prelude.rs), the synthetic game trees            *)
(* (games/stockman.rs, games/uniform_2b_wide.rs,                           *)
(* games/hypothetical_tree.rs), the Searcher with its six searching        *)
(* algorithms (search.rs) and the harness that runs the six algorithms one *)
(* after the other on one handler and one start position (main.rs).        *)
(*                                                                         *)
(* The five recursive algorithms are operators that thread the Searcher's  *)
(* leaf counter through the recursion; SSS*, which is a loop over a        *)
(* priority queue, is a sequence of steps, one per iteration of its loop.  *)
(***************************************************************************)
EXTENDS Integers, Sequences, FiniteSets, TLC

VARIABLES
    handler,      \* the GameHandler under search
    MAX_DEPTH,    \* the const generic MAX_DEPTH (DEPTH of the root calls)
    leaf_count,   \* Searcher::leaf_count
    pc,           \* the harness' position: the algorithm to run next
    results,      \* results[N] of the harness, in the order of the algorithms
    open,         \* the OPEN list of sss, in the order of insertion
    i,            \* the iteration counter of sss
    popped,       \* the state the last iteration of sss popped from OPEN
    lc_before,    \* the leaf counter when the last search was called
    evals         \* the calls of GameHandler::evaluate made by the last search

vars == <<handler, MAX_DEPTH, leaf_count, pc, results, open, i, popped,
          lc_before, evals>>

---------------------------------------------------------------------------
(* Bounds of the model. *)

\* The largest MAX_DEPTH every handler is searched with.
MaxDepth == 2
\* The number of iterations of the loop of sss the model follows.
MaxIterations == 40
\* The largest absolute leaf value the random generator of
\* Uniform2bWideHandler::new is taken to produce.
MaxLeafAbs == 1
\* EVAL_MAXIMUM of the table-driven handler.
TableEvalMax == 1

(* Program constants. *)
I32_MAX == 2147483647
\* i64::MAX is beyond the integers of the model checker; the largest value it
\* has stands for it.  Every node value of the hypothetical tree is far below.
I64_MAX == 2147483647
StockmanEvalMax == 100

---------------------------------------------------------------------------
(* Option<Move> and the fixed-length lines of moves. *)

None == <<>>
Some(mv) == <<mv>>

\* [None; MAX_DEPTH]
NoLine(MD) == [k \in 1..MD |-> None]

Max_the_lesser(a, b) == IF a >= b THEN b ELSE a

Max(a, b) == IF a >= b THEN a ELSE b

RECURSIVE Pow(_, _)
Pow(b, e) == IF e = 0 THEN 1 ELSE b * Pow(b, e - 1)

---------------------------------------------------------------------------
(* GamePosition: startpos and play_move of the position types. *)

\* StockmanPos::play_move and Uniform2bWidePos::play_move: node << 1, plus
\* one for the right child.  The positions of the table-driven handler are
\* numbered the same way, and its moves Right and Twin both lead to the
\* right child.
BinaryPlayMove(pos, mv) ==
    IF mv \in {"LeftChild", "Left"} THEN 2 * pos ELSE 2 * pos + 1

\* The moves of the positions of the table-driven handler: Twin is a third
\* move, which leads to the position Right leads to.
TableMoves == <<"Left", "Right", "Twin">>

\* HypTreePos::play_move
HypTreePlayMove(pos, mv) ==
    [fanout |-> mv[1], node |-> pos.node * pos.fanout + mv[2]]

play_move(h, pos, mv) ==
    IF h.kind = "UnordIndHypTree" THEN HypTreePlayMove(pos, mv)
    ELSE BinaryPlayMove(pos, mv)

\* startpos of the position type of the handler; the harness gives the
\* hypothetical tree its depth as the fanout of the root.
startpos(h) ==
    IF h.kind = "UnordIndHypTree" THEN [fanout |-> h.depth, node |-> 0]
    ELSE 1

---------------------------------------------------------------------------
(* GameHandler: the handlers. *)

StockmanValues_27_and_26_swapped ==
    <<30, 54, 21, 73, 9, 71, 43, 91, 28, 94, 52, 78, 22, 35, 53, 80>>

StockmanValues ==
    <<30, 54, 21, 73, 9, 71, 43, 91, 28, 94, 78, 52, 22, 35, 53, 80>>

StockmanHandler_new ==
    [kind |-> "Stockman", depth |-> 4, width |-> 2, leaf_start |-> 15,
     fanouts |-> <<>>, toggle |-> FALSE, node_values |-> StockmanValues]

\* Uniform2bWideHandler::new: the values of the nodes 1 << depth ..
\* (1 << (depth + 1)) - 1, which the random generator draws.
Uniform2bWideHandler_new(depth, values) ==
    [kind |-> "Uniform2bWide", depth |-> depth, width |-> 2,
     leaf_start |-> Pow(2, depth), fanouts |-> <<>>, toggle |-> FALSE,
     node_values |-> values]

\* The loop of UnordIndHypTreeHandler::new that computes leaf_start.
RECURSIVE HypLeafStart(_, _)
HypLeafStart(depth, width) ==
    IF depth = 0 THEN 0 ELSE HypLeafStart(depth - 1, width) * width + 1

\* UnordIndHypTreeHandler::new: node_values is 1 ..= width^depth, shuffled.
UnordIndHypTreeHandler_new(depth, width, values) ==
    [kind |-> "UnordIndHypTree", depth |-> depth, width |-> width,
     leaf_start |-> HypLeafStart(depth, width) - 1, fanouts |-> <<>>,
     toggle |-> TRUE, node_values |-> values]

\* An implementation of GameHandler given by two tables: a position
\* (numbered as in the binary trees above) has the first fanouts[pos] of the
\* moves Left, Right, Twin.  It evaluates to node_values[pos]: whatever the
\* depth, as the Stockman and the uniform tree do, or, with toggle, with the
\* sign the hypothetical tree gives it.
TableHandler_new(fanouts, toggle, values) ==
    [kind |-> "Table", depth |-> 2, width |-> 2, leaf_start |-> 4,
     fanouts |-> fanouts, toggle |-> toggle, node_values |-> values]

EVAL_MAXIMUM(h) ==
    CASE h.kind = "Stockman" -> StockmanEvalMax
      [] h.kind = "Uniform2bWide" -> I32_MAX
      [] h.kind = "UnordIndHypTree" -> I64_MAX
      [] OTHER -> TableEvalMax

EVAL_MINIMUM(h) == -EVAL_MAXIMUM(h)

EVAL_EPSILON(h) == 1

get_legal_moves(h, pos) ==
    CASE h.kind = "Stockman" ->
            IF pos > 15 THEN <<>> ELSE <<"LeftChild", "RightChild">>
      [] h.kind = "Uniform2bWide" ->
            IF pos >= h.leaf_start THEN <<>> ELSE <<"Left", "Right">>
      [] h.kind = "UnordIndHypTree" ->
            IF pos.node > h.leaf_start THEN <<>>
            ELSE [shift \in 1..h.width |-> <<h.width, shift>>]
      [] OTHER ->
            IF pos >= h.leaf_start THEN <<>>
            ELSE SubSeq(TableMoves, 1, h.fanouts[pos])

evaluate(h, pos, depth, max_depth) ==
    CASE h.kind = "Stockman" ->
            IF pos \in 16..31 THEN h.node_values[pos - 15] ELSE I32_MAX
      [] h.kind = "Uniform2bWide" ->
            IF pos \in h.leaf_start..(2 * h.leaf_start - 1)
            THEN h.node_values[pos - h.leaf_start + 1] ELSE I32_MAX
      [] h.kind = "UnordIndHypTree" ->
            IF pos.node > h.leaf_start
            THEN h.node_values[pos.node - h.leaf_start]
                 * (IF (max_depth - depth) % 2 = 0 THEN 1 ELSE -1)
            ELSE 0
      [] OTHER ->
            h.node_values[pos]
            * (IF h.toggle /\ (max_depth - depth) % 2 = 1 THEN -1 ELSE 1)

---------------------------------------------------------------------------
(* Searcher: the leaf counter.  The searches thread a record sr through   *)
(* their calls: the Searcher's leaf_count, and with it the list of the    *)
(* calls of evaluate made so far, each with the position, the two depth   *)
(* arguments it was given and the remaining depth rem of the position.    *)

Searcher_new == 0

increment_leaf_count_by_two(sr) == [sr EXCEPT !.leaf_count = @ + 2]

increment_leaf_count(sr) == [sr EXCEPT !.leaf_count = @ + 1]

reset_leaf_count(sr) == [sr EXCEPT !.leaf_count = 0]

\* A call handler.evaluate(pos, depth, max_depth) on a position that is rem
\* plies above the horizon of the search.
CallEvaluate(sr, pos, depth, max_depth, rem) ==
    [sr EXCEPT !.evals = Append(@, [pos |-> pos, depth |-> depth,
                                    max_depth |-> max_depth, rem |-> rem])]

\* Statement 5 of the recursive algorithms: count the leaf, evaluate it and
\* return the evaluation with an empty line.
Leaf_at_depth_0(sr, h, pos, depth, MD) ==
    [val |-> evaluate(h, pos, 0, MD), pv |-> NoLine(MD),
     sr |-> CallEvaluate(increment_leaf_count(sr), pos, 0, MD, depth)]

Leaf(sr, h, pos, depth, MD) ==
    [val |-> evaluate(h, pos, depth, MD),
     pv  |-> NoLine(MD),
     sr  |-> CallEvaluate(increment_leaf_count(sr), pos, depth, MD, depth)]

\* line[MAX_DEPTH - depth] = Some(mv)
SetMove(line, MD, depth, mv) == [line EXCEPT ![MD - depth + 1] = Some(mv)]

---------------------------------------------------------------------------
(* Algorithm A. *)

RECURSIVE branch_and_bound(_, _, _, _, _, _)
RECURSIVE bb_loop(_, _, _, _, _, _, _, _, _, _)

branch_and_bound(sr, h, pos, depth, bound, MD) ==
    IF depth = 0 THEN Leaf(sr, h, pos, depth, MD)
    ELSE LET move_iter == get_legal_moves(h, pos) IN
         IF move_iter # <<>>
         THEN bb_loop(sr, h, pos, depth, bound, MD, move_iter, 1,
                      EVAL_MINIMUM(h), NoLine(MD))
         ELSE Leaf(sr, h, pos, depth, MD)

\* One round of the loop of branch_and_bound, on the k-th legal move.
bb_loop(sr, h, pos, depth, bound, MD, moves, k, m, pv) ==
    LET mv   == moves[k]
        r    == branch_and_bound(sr, h, play_move(h, pos, mv), depth - 1,
                                 -m, MD)
        t    == -r.val
        line == SetMove(r.pv, MD, depth, mv)
        m2   == IF t > m THEN t ELSE m
        pv2  == IF t > m THEN line ELSE pv
    IN  IF m2 >= bound THEN [val |-> m2, pv |-> line, sr |-> r.sr]
        ELSE IF k < Len(moves)
             THEN bb_loop(r.sr, h, pos, depth, bound, MD, moves, k + 1,
                          m2, pv2)
             ELSE [val |-> m2, pv |-> pv2, sr |-> r.sr]

---------------------------------------------------------------------------
(* Algorithm B. *)

RECURSIVE alpha_beta(_, _, _, _, _, _, _)
RECURSIVE ab_loop(_, _, _, _, _, _, _, _, _, _)

alpha_beta(sr, h, pos, depth, alpha, beta, MD) ==
    IF depth = 0 THEN Leaf(sr, h, pos, depth, MD)
    ELSE LET move_iter == get_legal_moves(h, pos) IN
         IF move_iter # <<>>
         THEN ab_loop(sr, h, pos, depth, beta, MD, move_iter, 1, alpha,
                      NoLine(MD))
         ELSE Leaf(sr, h, pos, depth, MD)

\* The loop of alpha_beta without its cutoff.
ab_loop_without_cutoff(sr, h, pos, depth, beta, MD, moves, k, m, pv) ==
    LET mv   == moves[k]
        r    == alpha_beta(sr, h, play_move(h, pos, mv), depth - 1,
                           -beta, -m, MD)
        t    == -r.val
        line == SetMove(r.pv, MD, depth, mv)
        m2   == IF t > m THEN t ELSE m
        pv2  == IF t > m THEN line ELSE pv
    IN  IF k < Len(moves)
        THEN ab_loop(r.sr, h, pos, depth, beta, MD, moves, k + 1, m2, pv2)
        ELSE [val |-> m2, pv |-> pv2, sr |-> r.sr]

\* One round of the loop of alpha_beta, on the k-th legal move.
ab_loop(sr, h, pos, depth, beta, MD, moves, k, m, pv) ==
    LET mv   == moves[k]
        r    == alpha_beta(sr, h, play_move(h, pos, mv), depth - 1,
                           -beta, -m, MD)
        t    == -r.val
        line == SetMove(r.pv, MD, depth, mv)
        m2   == IF t > m THEN t ELSE m
        pv2  == IF t > m THEN line ELSE pv
    IN  IF m2 >= beta THEN [val |-> m2, pv |-> line, sr |-> r.sr]
        ELSE IF k < Len(moves)
             THEN ab_loop(r.sr, h, pos, depth, beta, MD, moves, k + 1,
                          m2, pv2)
             ELSE [val |-> m2, pv |-> pv2, sr |-> r.sr]

---------------------------------------------------------------------------
(* Algorithm C and its auxiliary f_alpha_beta. *)

RECURSIVE f_alpha_beta(_, _, _, _, _, _, _)
RECURSIVE fab_loop(_, _, _, _, _, _, _, _, _, _, _)

f_alpha_beta(sr, h, pos, depth, alpha, beta, MD) ==
    IF depth = 0 THEN Leaf(sr, h, pos, depth, MD)
    ELSE LET move_iter == get_legal_moves(h, pos) IN
         IF move_iter # <<>>
         THEN fab_loop(sr, h, pos, depth, alpha, beta, MD, move_iter, 1,
                       EVAL_MINIMUM(h), NoLine(MD))
         ELSE Leaf(sr, h, pos, depth, MD)

\* The loop of f_alpha_beta taking the value of a child as it is returned,
\* without the change of sign.
fab_loop_not_negated(sr, h, pos, depth, alpha, beta, MD, moves, k, m, pv) ==
    LET mv   == moves[k]
        r    == f_alpha_beta(sr, h, play_move(h, pos, mv), depth - 1,
                             -beta, -Max(m, alpha), MD)
        t    == r.val
        line == SetMove(r.pv, MD, depth, mv)
        m2   == IF t > m THEN t ELSE m
        pv2  == IF t > m THEN line ELSE pv
    IN  IF m2 >= beta THEN [val |-> m2, pv |-> line, sr |-> r.sr]
        ELSE IF k < Len(moves)
             THEN fab_loop(r.sr, h, pos, depth, alpha, beta, MD, moves,
                           k + 1, m2, pv2)
             ELSE [val |-> m2, pv |-> pv2, sr |-> r.sr]

\* One round of the loop of f_alpha_beta, on the k-th legal move.
fab_loop(sr, h, pos, depth, alpha, beta, MD, moves, k, m, pv) ==
    LET mv   == moves[k]
        r    == f_alpha_beta(sr, h, play_move(h, pos, mv), depth - 1,
                             -beta, -Max(m, alpha), MD)
        t    == -r.val
        line == SetMove(r.pv, MD, depth, mv)
        m2   == IF t > m THEN t ELSE m
        pv2  == IF t > m THEN line ELSE pv
    IN  IF m2 >= beta THEN [val |-> m2, pv |-> line, sr |-> r.sr]
        ELSE IF k < Len(moves)
             THEN fab_loop(r.sr, h, pos, depth, alpha, beta, MD, moves,
                           k + 1, m2, pv2)
             ELSE [val |-> m2, pv |-> pv2, sr |-> r.sr]

RECURSIVE p_alpha_beta(_, _, _, _, _)
RECURSIVE pab_loop(_, _, _, _, _, _, _, _, _)

p_alpha_beta(sr, h, pos, depth, MD) ==
    IF depth = 0 THEN Leaf(sr, h, pos, depth, MD)
    ELSE LET move_iter == get_legal_moves(h, pos) IN
         IF move_iter # <<>>
         THEN LET mv == move_iter[1]
                  r  == p_alpha_beta(sr, h, play_move(h, pos, mv),
                                     depth - 1, MD)
              IN  pab_loop(r.sr, h, pos, depth, MD, move_iter, 2, -r.val,
                           SetMove(r.pv, MD, depth, mv))
         ELSE Leaf(sr, h, pos, depth, MD)

\* The for loop of p_alpha_beta over the legal moves after the first, from
\* the k-th on.
pab_loop(sr, h, pos, depth, MD, moves, k, m, pv) ==
    IF k > Len(moves) THEN [val |-> m, pv |-> pv, sr |-> sr]
    ELSE LET mv       == moves[k]
             next_pos == play_move(h, pos, mv)
             probe    == f_alpha_beta(sr, h, next_pos, depth - 1,
                                      -m - EVAL_EPSILON(h), -m, MD)
             t        == -probe.val
         IN  IF t > m
             THEN LET r == f_alpha_beta(probe.sr, h, next_pos, depth - 1,
                                        EVAL_MINIMUM(h), -t, MD)
                  IN  pab_loop(r.sr, h, pos, depth, MD, moves, k + 1,
                               -r.val, SetMove(r.pv, MD, depth, mv))
             ELSE pab_loop(probe.sr, h, pos, depth, MD, moves, k + 1, m, pv)

---------------------------------------------------------------------------
(* Algorithm D. *)

RECURSIVE pvs(_, _, _, _, _, _, _)
RECURSIVE pvs_loop(_, _, _, _, _, _, _, _, _, _, _)

pvs(sr, h, pos, depth, alpha, beta, MD) ==
    IF depth = 0 THEN Leaf(sr, h, pos, depth, MD)
    ELSE LET move_iter == get_legal_moves(h, pos) IN
         IF move_iter # <<>>
         THEN LET mv == move_iter[1]
                  r  == pvs(sr, h, play_move(h, pos, mv), depth - 1,
                            -beta, -alpha, MD)
                  m  == -r.val
                  pv == SetMove(r.pv, MD, depth, mv)
              IN  IF m < beta
                  THEN pvs_loop(r.sr, h, pos, depth, alpha, beta, MD,
                                move_iter, 2, m, pv)
                  ELSE [val |-> m, pv |-> pv, sr |-> r.sr]
         ELSE Leaf(sr, h, pos, depth, MD)

\* The loop of pvs with its cutoff at alpha.
pvs_loop_cut_at_alpha(sr, h, pos, depth, alpha, beta, MD, moves, k, m, pv) ==
    IF k > Len(moves) THEN [val |-> m, pv |-> pv, sr |-> sr]
    ELSE LET mv       == moves[k]
             bound    == Max(m, alpha)
             next_pos == play_move(h, pos, mv)
             probe    == pvs(sr, h, next_pos, depth - 1,
                             -bound - EVAL_EPSILON(h), -bound, MD)
             t        == -probe.val
             r        == pvs(probe.sr, h, next_pos, depth - 1, -beta, -t,
                             MD)
             m2       == IF t > m THEN -r.val ELSE m
             pv2      == IF t > m THEN SetMove(r.pv, MD, depth, mv) ELSE pv
             sr2      == IF t > m THEN r.sr ELSE probe.sr
         IN  IF m2 >= alpha THEN [val |-> m2, pv |-> pv2, sr |-> sr2]
             ELSE pvs_loop(sr2, h, pos, depth, alpha, beta, MD, moves,
                           k + 1, m2, pv2)

\* The for loop of pvs over the legal moves after the first, from the k-th
\* on.
pvs_loop(sr, h, pos, depth, alpha, beta, MD, moves, k, m, pv) ==
    IF k > Len(moves) THEN [val |-> m, pv |-> pv, sr |-> sr]
    ELSE LET mv       == moves[k]
             bound    == Max(m, alpha)
             next_pos == play_move(h, pos, mv)
             probe    == pvs(sr, h, next_pos, depth - 1,
                             -bound - EVAL_EPSILON(h), -bound, MD)
             t        == -probe.val
             r        == pvs(probe.sr, h, next_pos, depth - 1, -beta, -t,
                             MD)
             m2       == IF t > m THEN -r.val ELSE m
             pv2      == IF t > m THEN SetMove(r.pv, MD, depth, mv) ELSE pv
             sr2      == IF t > m THEN r.sr ELSE probe.sr
         IN  IF m2 >= beta THEN [val |-> m2, pv |-> pv2, sr |-> sr2]
             ELSE pvs_loop(sr2, h, pos, depth, alpha, beta, MD, moves,
                           k + 1, m2, pv2)

---------------------------------------------------------------------------
(* Algorithm E and its feasibility test. *)

RECURSIVE test(_, _, _, _, _, _, _)
RECURSIVE test_loop(_, _, _, _, _, _, _, _, _)

\* Statements 6-9 of test: count the leaf and compare its evaluation with v.
TestLeaf(sr, h, pos, depth, max_depth, v, op) ==
    [val |-> IF op THEN evaluate(h, pos, depth, max_depth) >= v
                   ELSE evaluate(h, pos, depth, max_depth) > v,
     sr  |-> CallEvaluate(increment_leaf_count(sr), pos, depth, max_depth,
                          depth)]

test(sr, h, pos, depth, max_depth, v, op) ==
    IF depth = 0 THEN TestLeaf(sr, h, pos, depth, max_depth, v, op)
    ELSE LET move_iter == get_legal_moves(h, pos) IN
         IF move_iter # <<>>
         THEN test_loop(sr, h, pos, depth, max_depth, v, op, move_iter, 1)
         ELSE TestLeaf(sr, h, pos, depth, max_depth, v, op)

\* The loop of test going on to the last child.
test_loop_to_the_last_child(sr, h, pos, depth, max_depth, v, op, moves, k) ==
    LET r == test(sr, h, play_move(h, pos, moves[k]), depth - 1, max_depth,
                  -v, ~op)
    IN  IF k < Len(moves)
        THEN LET rest == test_loop(r.sr, h, pos, depth, max_depth, v, op,
                                   moves, k + 1)
             IN  [val |-> ~r.val \/ rest.val, sr |-> rest.sr]
        ELSE [val |-> ~r.val, sr |-> r.sr]

\* One round of the loop of test, on the k-th legal move.
test_loop(sr, h, pos, depth, max_depth, v, op, moves, k) ==
    LET r == test(sr, h, play_move(h, pos, moves[k]), depth - 1, max_depth,
                  -v, ~op)
    IN  IF ~r.val THEN [val |-> TRUE, sr |-> r.sr]
        ELSE IF k < Len(moves)
             THEN test_loop(r.sr, h, pos, depth, max_depth, v, op, moves,
                            k + 1)
             ELSE [val |-> FALSE, sr |-> r.sr]

RECURSIVE scout(_, _, _, _, _)
RECURSIVE scout_loop(_, _, _, _, _, _, _, _, _)

scout(sr, h, pos, depth, MD) ==
    IF depth = 0 THEN Leaf(sr, h, pos, depth, MD)
    ELSE LET move_iter == get_legal_moves(h, pos) IN
         IF move_iter # <<>>
         THEN LET mv == move_iter[1]
                  r  == scout(sr, h, play_move(h, pos, mv), depth - 1, MD)
              IN  scout_loop(r.sr, h, pos, depth, MD, move_iter, 2, -r.val,
                             SetMove(r.pv, MD, depth, mv))
         ELSE Leaf(sr, h, pos, depth, MD)

\* The for loop of scout with the polarity of its test not inverted: a
\* child that is worth as much as the running best is not searched again.
scout_loop_skipping_ties(sr, h, pos, depth, MD, moves, k, m, pv) ==
    IF k > Len(moves) THEN [val |-> m, pv |-> pv, sr |-> sr]
    ELSE LET mv       == moves[k]
             next_pos == play_move(h, pos, mv)
             probe    == test(sr, h, next_pos, depth - 1, MD, -m, TRUE)
         IN  IF ~probe.val
             THEN LET r == scout(probe.sr, h, next_pos, depth - 1, MD)
                  IN  scout_loop(r.sr, h, pos, depth, MD, moves, k + 1,
                                 -r.val, SetMove(r.pv, MD, depth, mv))
             ELSE scout_loop(probe.sr, h, pos, depth, MD, moves, k + 1, m,
                             pv)

\* The for loop of scout over the legal moves after the first, from the
\* k-th on; op is true.
scout_loop(sr, h, pos, depth, MD, moves, k, m, pv) ==
    IF k > Len(moves) THEN [val |-> m, pv |-> pv, sr |-> sr]
    ELSE LET mv       == moves[k]
             next_pos == play_move(h, pos, mv)
             probe    == test(sr, h, next_pos, depth - 1, MD, -m, ~TRUE)
         IN  IF ~probe.val
             THEN LET r == scout(probe.sr, h, next_pos, depth - 1, MD)
                  IN  scout_loop(r.sr, h, pos, depth, MD, moves, k + 1,
                                 -r.val, SetMove(r.pv, MD, depth, mv))
             ELSE scout_loop(probe.sr, h, pos, depth, MD, moves, k + 1, m,
                             pv)

---------------------------------------------------------------------------
(* Algorithm F: the State of sss and the order of OPEN. *)

\* A State that does not keep its line.
State_without_line(tag, node, merit, depth, line, iteration) ==
    [tag |-> tag, node |-> node, merit |-> merit, depth |-> depth,
     line |-> [k \in 1..Len(line) |-> None], iteration |-> iteration]

\* State::Live { node, merit, depth, line, iteration } and State::Solved
\* likewise; merit is the pair (value, line of moves).
State(tag, node, merit, depth, line, iteration) ==
    [tag |-> tag, node |-> node, merit |-> merit, depth |-> depth,
     line |-> line, iteration |-> iteration]

is_max_player(state, max_depth) == ((max_depth - state.depth) % 2) = 0

cmp_earliest_first(a, b) ==
    CASE a.merit[1] < b.merit[1] -> "Less"
      [] a.merit[1] > b.merit[1] -> "Greater"
      [] a.iteration > b.iteration -> "Less"
      [] a.iteration < b.iteration -> "Greater"
      [] OTHER -> "Equal"

\* impl Ord for State: by the value of the merit, then by the iteration.
cmp(a, b) ==
    CASE a.merit[1] < b.merit[1] -> "Less"
      [] a.merit[1] > b.merit[1] -> "Greater"
      [] a.iteration < b.iteration -> "Less"
      [] a.iteration > b.iteration -> "Greater"
      [] OTHER -> "Equal"

\* A pop that may return any item of the heap.
PopChoices_any_item(heap) == 1..Len(heap)

\* BinaryHeap::pop returns a greatest item of the heap; which one of
\* several items that compare as equal is not specified.  The indices of
\* the items pop may return.
PopChoices(heap) ==
    {k \in 1..Len(heap) :
        \A j \in 1..Len(heap) : cmp(heap[j], heap[k]) # "Greater"}

\* The heap with its k-th item left in.
RemoveAt_nothing(heap, k) == heap

\* The heap without its k-th item.
RemoveAt(heap, k) ==
    [j \in 1..(Len(heap) - 1) |-> IF j < k THEN heap[j] ELSE heap[j + 1]]

\* for mv in l.iter().take(path_length) { parent = parent.play_move(mv.unwrap()) }
RECURSIVE Replay(_, _, _, _, _)
Replay(h, pos, l, k, path_length) ==
    IF k > path_length THEN pos
    ELSE Replay(h, play_move(h, pos, l[k][1]), l, k + 1, path_length)

\* Whether every mv.unwrap() of the replay finds a move.
CanReplay(l, path_length) == \A k \in 1..path_length : l[k] # None

\* handler.get_legal_moves(parent)
\*     .skip_while(|&mv| parent.play_move(mv) != n).nth(1)
NextMove(h, parent, n) ==
    LET moves == get_legal_moves(h, parent)
        found == {k \in 1..Len(moves) : play_move(h, parent, moves[k]) = n}
        first == CHOOSE k \in found : \A j \in found : k <= j
    IN  IF found = {} \/ first + 1 > Len(moves) THEN None
        ELSE Some(moves[first + 1])

\* OPEN with nothing purged.
Retain_everything(heap, l, path_length) == heap

\* open.retain(|&state| state.line().iter().zip(l.iter())
\*     .take(path_length).any(|(&best, &discard)| best != discard))
Retain(heap, l, path_length) ==
    SelectSeq(heap, LAMBDA state :
        \E k \in 1..path_length : state.line[k] # l[k])

\* The sign-adjusted evaluation of a leaf of sss; depth is the depth the
\* search was called with.
LeafEval(h, n, depth, MD) ==
    IF ((MD - depth) % 2) = 0 THEN evaluate(h, n, depth, MD)
    ELSE -evaluate(h, n, depth, MD)

SolveLeaf_without_minimum(h, state, depth, MD, iter) ==
    State("Solved", state.node,
          <<LeafEval(h, state.node, depth, MD), state.line>>,
          state.depth, state.line, iter)

\* The Solved state pushed for a Live leaf.
SolveLeaf(h, state, depth, MD, iter) ==
    LET eval == LeafEval(h, state.node, depth, MD)
    IN  State("Solved", state.node,
              IF state.merit[1] < eval THEN state.merit
              ELSE <<eval, state.line>>,
              state.depth, state.line, iter)

\* The arm of the match for a Solved state below the root with a Case 1
\* that purges and pushes nothing.
ProcessSolved_purge_only(h, root, state, rest, MD, iter) ==
    LET l           == state.line
        d           == state.depth
        path_length == MD - d - 1
        parent      == Replay(h, root, l, 1, path_length)
        next_move   == NextMove(h, parent, state.node)
    IN  IF is_max_player(state, MD)
        THEN IF next_move # None
             THEN Append(rest,
                      State("Live", play_move(h, parent, next_move[1]),
                            state.merit, d,
                            [k \in 1..MD |->
                                IF k = path_length + 1 THEN next_move
                                ELSE IF k > path_length + 1 THEN None
                                ELSE l[k]],
                            iter))
             ELSE Append(rest, State("Solved", parent, state.merit, d + 1,
                                     l, iter))
        ELSE Retain(rest, l, path_length)

\* The arm of the match for a Solved state below the root: what is left of
\* OPEN after it, in the order of insertion.
ProcessSolved(h, root, state, rest, MD, iter) ==
    LET l           == state.line
        d           == state.depth
        path_length == MD - d - 1
        parent      == Replay(h, root, l, 1, path_length)
        next_move   == NextMove(h, parent, state.node)
    IN  IF is_max_player(state, MD)
        THEN IF next_move # None
             THEN \* Case 2.
                  Append(rest,
                      State("Live", play_move(h, parent, next_move[1]),
                            state.merit, d,
                            [k \in 1..MD |->
                                IF k = path_length + 1 THEN next_move
                                ELSE IF k > path_length + 1 THEN None
                                ELSE l[k]],
                            iter))
             ELSE \* Case 3.
                  Append(rest, State("Solved", parent, state.merit, d + 1,
                                     l, iter))
        ELSE \* Case 1.
             Append(Retain(rest, l, path_length),
                    State("Solved", parent, state.merit, d + 1, l, iter))

\* The arm of the match for a Live state that is not a leaf with every
\* child pushed, whoever is to move.
ProcessLive_every_child(h, state, rest, MD, iter) ==
    LET moves == get_legal_moves(h, state.node)
        d     == state.depth
        child(mv) == State("Live", play_move(h, state.node, mv),
                           state.merit, d - 1,
                           [state.line EXCEPT ![MD - d + 1] = Some(mv)],
                           iter)
    IN  rest \o [k \in 1..Len(moves) |-> child(moves[k])]

\* The arm of the match for a Live state that is not a leaf: Case 6 pushes
\* every child, Case 5 the first one.
ProcessLive(h, state, rest, MD, iter) ==
    LET moves == get_legal_moves(h, state.node)
        d     == state.depth
        child(mv) == State("Live", play_move(h, state.node, mv),
                           state.merit, d - 1,
                           [state.line EXCEPT ![MD - d + 1] = Some(mv)],
                           iter)
    IN  IF is_max_player(state, MD)
        THEN rest \o [k \in 1..Len(moves) |-> child(moves[k])]
        ELSE Append(rest, child(moves[1]))

IsLeafState_every_state(h, state) == TRUE

\* Whether a Live state is a leaf: d == 0, or no legal move.
IsLeafState(h, state) ==
    state.depth = 0 \/ get_legal_moves(h, state.node) = <<>>

---------------------------------------------------------------------------
(* The handlers and the depths the searches are run on. *)

\* The leaf values the random generator of Uniform2bWideHandler::new draws.
LeafValues == (0 - MaxLeafAbs)..MaxLeafAbs

\* The depth parameters of the Uniform2bWideHandler.
UniformDepths == {0, 1, 2}

\* The (depth, width) parameters of the UnordIndHypTreeHandler.
HypShapes == {<<1, 2>>, <<1, 3>>, <<2, 2>>}

\* The shuffles of 1 ..= n.
Shuffles(n) ==
    {p \in [1..n -> 1..n] : \A a, b \in 1..n : a # b => p[a] # p[b]}

\* The tables of the table-driven handler: the root and its right child
\* have up to two moves, its left child up to three, the positions 4..7
\* none; a position that is not a leaf of the tree, or not in it, has the
\* value 0.
TableValues == (0 - TableEvalMax)..TableEvalMax

InTable(fanouts, pos) ==
    \/ pos = 1
    \/ pos \in 2..3 /\ fanouts[1] >= pos - 1
    \/ pos \in 4..5 /\ fanouts[1] >= 1 /\ fanouts[2] >= pos - 3
    \/ pos \in 6..7 /\ fanouts[1] >= 2 /\ fanouts[3] >= pos - 5

IsTableLeaf(fanouts, pos) ==
    InTable(fanouts, pos) /\ (pos >= 4 \/ fanouts[pos] = 0)

TableHandlers ==
    {TableHandler_new(f, t, v) :
        <<f, t, v>> \in
            {<<f, t, v>> \in [1..3 -> 0..3] \X BOOLEAN
                             \X [1..7 -> TableValues] :
                /\ f[1] <= 2 /\ f[3] <= 2
                /\ \A pos \in 1..3 : ~InTable(f, pos) => f[pos] = 0
                /\ \A pos \in 1..7 : ~IsTableLeaf(f, pos) => v[pos] = 0}}

Handlers ==
    {StockmanHandler_new}
    \cup {Uniform2bWideHandler_new(d, v) :
            <<d, v>> \in {<<d, v>> \in UniformDepths
                              \X UNION {[1..Pow(2, d) -> LeafValues] :
                                          d \in UniformDepths} :
                            Len(v) = Pow(2, d)}}
    \cup {UnordIndHypTreeHandler_new(s[1], s[2], v) :
            <<s, v>> \in {<<s, v>> \in HypShapes
                              \X UNION {Shuffles(Pow(s[2], s[1])) :
                                          s \in HypShapes} :
                            Len(v) = Pow(s[2], s[1])}}
    \cup TableHandlers

\* The MAX_DEPTH a handler is searched with: every depth up to MaxDepth,
\* and, as the harness does, the depth of its tree.
Depths(h) == (0..MaxDepth) \cup {h.depth}

---------------------------------------------------------------------------
(* The harness: the six root calls, in the order of the harness. *)

Algorithms ==
    <<"branch_and_bound", "alpha_beta", "p_alpha_beta", "pvs", "scout",
      "sss">>

\* The algorithm that follows alg in the harness.
NextAlgorithm(alg) ==
    LET N == CHOOSE k \in 1..Len(Algorithms) : Algorithms[k] = alg
    IN  Algorithms[N + 1]

Init ==
    /\ handler \in Handlers
    /\ MAX_DEPTH \in Depths(handler)
    /\ leaf_count = Searcher_new
    /\ pc = "branch_and_bound"
    /\ results = <<>>
    /\ open = <<>>
    /\ i = 0
    /\ popped = None
    /\ lc_before = 0
    /\ evals = <<>>

\* searcher.reset_leaf_count(), which the harness calls before every root
\* call: the Searcher the search starts from.
Sr == reset_leaf_count([leaf_count |-> leaf_count, evals |-> <<>>])

\* What the harness does with the result r of the root call of alg.
Record(alg, r) ==
    /\ results' = Append(results,
                         [alg |-> alg, val |-> r.val, pv |-> r.pv,
                          leaves |-> r.sr.leaf_count])
    /\ leaf_count' = r.sr.leaf_count
    /\ evals' = r.sr.evals
    /\ lc_before' = Sr.leaf_count
    /\ pc' = NextAlgorithm(alg)
    /\ UNCHANGED <<handler, MAX_DEPTH, open, i, popped>>

root_call_bb ==
    /\ pc = "branch_and_bound"
    /\ Record("branch_and_bound",
              branch_and_bound(Sr, handler, startpos(handler), MAX_DEPTH,
                               EVAL_MAXIMUM(handler), MAX_DEPTH))

root_call_ab ==
    /\ pc = "alpha_beta"
    /\ Record("alpha_beta",
              alpha_beta(Sr, handler, startpos(handler), MAX_DEPTH,
                         EVAL_MINIMUM(handler), EVAL_MAXIMUM(handler),
                         MAX_DEPTH))

root_call_pab ==
    /\ pc = "p_alpha_beta"
    /\ Record("p_alpha_beta",
              p_alpha_beta(Sr, handler, startpos(handler), MAX_DEPTH,
                           MAX_DEPTH))

root_call_pvs ==
    /\ pc = "pvs"
    /\ Record("pvs",
              pvs(Sr, handler, startpos(handler), MAX_DEPTH,
                  EVAL_MINIMUM(handler), EVAL_MAXIMUM(handler), MAX_DEPTH))

root_call_scout ==
    /\ pc = "scout"
    /\ Record("scout",
              scout(Sr, handler, startpos(handler), MAX_DEPTH, MAX_DEPTH))

\* The call of sss up to its loop: the Live state of the root is pushed.
root_call_sss ==
    /\ pc = "sss"
    /\ open' = <<State("Live", startpos(handler),
                       <<EVAL_MAXIMUM(handler), NoLine(MAX_DEPTH)>>,
                       MAX_DEPTH, NoLine(MAX_DEPTH), 0)>>
    /\ i' = 1
    /\ popped' = None
    /\ leaf_count' = Sr.leaf_count
    /\ lc_before' = Sr.leaf_count
    /\ evals' = Sr.evals
    /\ pc' = "sss_loop"
    /\ UNCHANGED <<handler, MAX_DEPTH, results>>

\* One iteration of the loop of sss, which was called with depth ==
\* MAX_DEPTH: a greatest state is popped and processed.  The loop ends by
\* returning the merit of the Solved root; an empty OPEN, or an empty slot
\* where the replay of a line needs a move, is a panic.
sss_iteration ==
    /\ pc = "sss_loop"
    /\ i < MaxIterations
    /\ IF open = <<>>
       THEN /\ pc' = "panic"
            /\ UNCHANGED <<handler, MAX_DEPTH, leaf_count, results, open, i,
                           popped, lc_before, evals>>
       ELSE \E k \in PopChoices(open) :
            LET state == open[k]
                rest  == RemoveAt(open, k)
                depth == MAX_DEPTH
                root  == startpos(handler)
            IN  /\ popped' = Some(state)
                /\ UNCHANGED <<handler, MAX_DEPTH, lc_before>>
                /\ IF state.tag = "Solved"
                   THEN IF state.depth = MAX_DEPTH
                        THEN /\ results' = Append(results,
                                    [alg |-> "sss", val |-> state.merit[1],
                                     pv |-> state.merit[2],
                                     leaves |-> leaf_count])
                             /\ pc' = "done"
                             /\ open' = rest
                             /\ UNCHANGED <<leaf_count, i, evals>>
                        ELSE IF ~CanReplay(state.line,
                                           MAX_DEPTH - state.depth - 1)
                        THEN /\ pc' = "panic"
                             /\ open' = rest
                             /\ UNCHANGED <<leaf_count, results, i, evals>>
                        ELSE /\ open' = ProcessSolved(handler, root, state,
                                                      rest, MAX_DEPTH, i)
                             /\ i' = i + 1
                             /\ UNCHANGED <<leaf_count, results, pc, evals>>
                   ELSE IF IsLeafState(handler, state)
                        THEN LET sr == CallEvaluate(
                                     increment_leaf_count(
                                         [leaf_count |-> leaf_count,
                                          evals |-> evals]),
                                     state.node, depth, MAX_DEPTH,
                                     state.depth)
                             IN  /\ leaf_count' = sr.leaf_count
                                 /\ evals' = sr.evals
                                 /\ open' = Append(rest,
                                        SolveLeaf(handler, state, depth,
                                                  MAX_DEPTH, i))
                                 /\ i' = i + 1
                                 /\ UNCHANGED <<results, pc>>
                        ELSE /\ open' = ProcessLive(handler, state, rest,
                                                    MAX_DEPTH, i)
                             /\ i' = i + 1
                             /\ UNCHANGED <<leaf_count, results, pc, evals>>

Next ==
    \/ root_call_bb
    \/ root_call_ab
    \/ root_call_pab
    \/ root_call_pvs
    \/ root_call_scout
    \/ root_call_sss
    \/ sss_iteration

Spec == Init /\ [][Next]_vars

\* The harness on the table handlers all of whose positions evaluate to 0.
ZeroTableInit ==
    /\ Init
    /\ handler.kind = "Table"
    /\ \A pos \in 1..7 : handler.node_values[pos] = 0

\* The harness is a sequential program: it takes its next step whenever
\* it has one.
FairSpec == ZeroTableInit /\ [][Next]_vars /\ WF_vars(Next)

---------------------------------------------------------------------------
(* The window searches and the feasibility test as functions of their    *)
(* arguments: one call of alpha_beta, pvs, f_alpha_beta or test on a node *)
(* of the tree of a handler, with a window or a threshold of the caller's *)
(* choice.                                                                *)

\* The largest absolute value of a window bound or threshold that is not
\* EVAL_MINIMUM or EVAL_MAXIMUM.
MaxWindowAbs == 1

\* The bounds of the windows, and the thresholds of test.
WindowBounds(h) ==
    {EVAL_MINIMUM(h), EVAL_MAXIMUM(h)}
        \cup ((0 - MaxWindowAbs)..MaxWindowAbs)

\* The nodes of the search of depth plies from a position: each position
\* with its remaining depth.
RECURSIVE Nodes(_, _, _)
Nodes(h, pos, depth) ==
    LET moves == get_legal_moves(h, pos)
    IN  {[pos |-> pos, depth |-> depth]}
            \cup IF depth = 0 THEN {}
                 ELSE UNION {Nodes(h, play_move(h, pos, moves[k]), depth - 1) :
                                k \in 1..Len(moves)}

\* A handler of each kind, searched to the depth of its tree; the table
\* handlers without the change of sign, which the hypothetical trees have.
CallInit ==
    /\ handler \in {h \in Handlers : ~(h.kind = "Table" /\ h.toggle)}
    /\ MAX_DEPTH = handler.depth
    /\ leaf_count = Searcher_new
    /\ pc = "call"
    /\ results = <<>>
    /\ open = <<>>
    /\ i = 0
    /\ popped = None
    /\ lc_before = 0
    /\ evals = <<>>

\* What is kept of a call: its arguments and what it returned.
Called(alg, n, alpha, beta, r) ==
    /\ results' = <<[alg |-> alg, pos |-> n.pos, depth |-> n.depth,
                     alpha |-> alpha, beta |-> beta, val |-> r.val,
                     pv |-> r.pv, leaves |-> r.sr.leaf_count]>>
    /\ leaf_count' = r.sr.leaf_count
    /\ evals' = r.sr.evals
    /\ pc' = "called"
    /\ UNCHANGED <<handler, MAX_DEPTH, open, i, popped, lc_before>>

call_alpha_beta ==
    /\ pc = "call"
    /\ \E n \in Nodes(handler, startpos(handler), MAX_DEPTH) :
           \E alpha, beta \in WindowBounds(handler) :
               /\ alpha < beta
               /\ Called("alpha_beta", n, alpha, beta,
                         alpha_beta(Sr, handler, n.pos, n.depth, alpha, beta,
                                    MAX_DEPTH))

call_pvs ==
    /\ pc = "call"
    /\ \E n \in Nodes(handler, startpos(handler), MAX_DEPTH) :
           \E alpha, beta \in WindowBounds(handler) :
               /\ alpha < beta
               /\ Called("pvs", n, alpha, beta,
                         pvs(Sr, handler, n.pos, n.depth, alpha, beta,
                             MAX_DEPTH))

call_f_alpha_beta ==
    /\ pc = "call"
    /\ \E n \in Nodes(handler, startpos(handler), MAX_DEPTH) :
           \E alpha, beta \in WindowBounds(handler) :
               /\ alpha < beta
               /\ Called("f_alpha_beta", n, alpha, beta,
                         f_alpha_beta(Sr, handler, n.pos, n.depth, alpha, beta,
                                      MAX_DEPTH))

\* test returns a boolean and no line; the threshold v is kept as alpha,
\* the polarity op as beta.
call_test ==
    /\ pc = "call"
    /\ \E n \in Nodes(handler, startpos(handler), MAX_DEPTH) :
           \E v \in WindowBounds(handler), op \in BOOLEAN :
               LET r == test(Sr, handler, n.pos, n.depth, MAX_DEPTH, v, op)
               IN  Called("test", n, v, op,
                          [val |-> r.val, pv |-> NoLine(MAX_DEPTH),
                           sr |-> r.sr])

CallNext ==
    \/ call_alpha_beta
    \/ call_pvs
    \/ call_f_alpha_beta
    \/ call_test

CallSpec == CallInit /\ [][CallNext]_vars

---------------------------------------------------------------------------
(* What the claims are stated with. *)

\* The greatest member of a non-empty finite set of integers.
SetMax(S) == CHOOSE x \in S : \A y \in S : y <= x

\* The exact negamax value of a position that is depth plies above the
\* horizon.
RECURSIVE Negamax(_, _, _, _)
Negamax(h, pos, depth, MD) ==
    LET moves == get_legal_moves(h, pos)
    IN  IF depth = 0 \/ moves = <<>> THEN evaluate(h, pos, depth, MD)
        ELSE SetMax({-Negamax(h, play_move(h, pos, moves[k]), depth - 1, MD) :
                        k \in 1..Len(moves)})

RootValue == Negamax(handler, startpos(handler), MAX_DEPTH, MAX_DEPTH)

\* The result the harness holds for an algorithm, once it has run.
Ran(alg) == \E k \in 1..Len(results) : results[k].alg = alg
ResultOf(alg) == results[CHOOSE k \in 1..Len(results) : results[k].alg = alg]

\* eval_from_line of the harness: the moves of the line are played from
\* the initial position, the position reached is evaluated, and the
\* evaluation is negated after an odd number of moves.
RECURSIVE PlayLine(_, _, _, _)
PlayLine(h, pos, line, k) ==
    IF k > Len(line) THEN [pos |-> pos, depth |-> 0]
    ELSE IF line[k] = None THEN PlayLine(h, pos, line, k + 1)
    ELSE LET r == PlayLine(h, play_move(h, pos, line[k][1]), line, k + 1)
         IN  [pos |-> r.pos, depth |-> r.depth + 1]

eval_from_line(h, initial_pos, line, SIZE) ==
    LET r == PlayLine(h, initial_pos, line, 1)
    IN  IF r.depth % 2 = 0 THEN evaluate(h, r.pos, SIZE - r.depth, SIZE)
        ELSE -evaluate(h, r.pos, SIZE - r.depth, SIZE)

\* The lines of moves from a position, depth plies above the horizon, to
\* the leaves of the search: the positions at the horizon or without a
\* legal move.
RECURSIVE LeafLines(_, _, _)
LeafLines(h, pos, depth) ==
    LET moves == get_legal_moves(h, pos)
    IN  IF depth = 0 \/ moves = <<>> THEN {<<>>}
        ELSE UNION {{<<moves[k]>> \o l :
                        l \in LeafLines(h, play_move(h, pos, moves[k]),
                                        depth - 1)} :
                    k \in 1..Len(moves)}

\* The position a sequence of moves leads to.
RECURSIVE PlayMoves(_, _, _)
PlayMoves(h, pos, l) ==
    IF l = <<>> THEN pos
    ELSE PlayMoves(h, play_move(h, pos, Head(l)), Tail(l))

\* The evaluation of the leaf a line of moves from the root ends in.
LeafValue(l) ==
    evaluate(handler, PlayMoves(handler, startpos(handler), l),
             MAX_DEPTH - Len(l), MAX_DEPTH)

\* The same, as the player to move at the root sees it.
LeafValueFromRoot(l) == IF Len(l) % 2 = 0 THEN LeafValue(l) ELSE -LeafValue(l)

RootLeafLines == LeafLines(handler, startpos(handler), MAX_DEPTH)

\* The handler keeps to its contract on the tree searched: every leaf
\* evaluates to a value from EVAL_MINIMUM to EVAL_MAXIMUM.
LeavesInRange ==
    \A l \in RootLeafLines :
        /\ LeafValue(l) >= EVAL_MINIMUM(handler)
        /\ LeafValue(l) <= EVAL_MAXIMUM(handler)

\* No two sibling positions of the tree searched are equal.
NoTwins ==
    handler.kind = "Table" =>
        \A pos \in 1..3 : InTable(handler.fanouts, pos)
                              => handler.fanouts[pos] <= 2

---------------------------------------------------------------------------
(* The claims. *)

\* C1: on a handler whose leaves evaluate within EVAL_MINIMUM..EVAL_MAXIMUM,
\* every one of the six root searches returns the exact negamax value of
\* the root, whatever max_depth is and wherever the leaves lie.
C1_SixSearchesReturnNegamax ==
    (results # <<>> /\ LeavesInRange) =>
        \A k \in 1..Len(results) : results[k].val = RootValue

\* C2: for each of the six root searches, eval_from_line of the returned
\* PV, played from the start position, is the returned Eval; also on
\* trees whose root value is EVAL_MINIMUM.
C2_PvRoundTrip ==
    (results # <<>> /\ LeavesInRange) =>
        \A k \in 1..Len(results) :
            eval_from_line(handler, startpos(handler), results[k].pv,
                           MAX_DEPTH) = results[k].val

StockmanPV ==
    <<Some("RightChild"), Some("LeftChild"), Some("RightChild"),
      Some("RightChild")>>

\* C3: on Stockman's tree with max_depth = 4 each of the six searches
\* returns Eval 52 and the PV RightChild, LeftChild, RightChild,
\* RightChild, and the replay of that PV ends at node 27.
C3_StockmanTree ==
    (handler.kind = "Stockman" /\ MAX_DEPTH = 4) =>
        \A k \in 1..Len(results) :
            /\ results[k].val = 52
            /\ results[k].pv = StockmanPV
            /\ PlayLine(handler, startpos(handler), results[k].pv, 1).pos = 27

\* All six searches have run on Stockman's tree with max_depth = 4.
C3_Witness ==
    /\ handler.kind = "Stockman"
    /\ MAX_DEPTH = 4
    /\ pc = "done"
    /\ Len(results) = 6

\* The leaves of the tree searched have pairwise distinct evaluations, and
\* pairwise distinct values as the player to move at the root sees them.
DistinctLeaves ==
    \A l1, l2 \in RootLeafLines :
        l1 # l2 => /\ LeafValue(l1) # LeafValue(l2)
                   /\ LeafValueFromRoot(l1) # LeafValueFromRoot(l2)

\* C4: on a tree whose leaf values are pairwise distinct, every search
\* returns the Eval and the PV that branch_and_bound returns.
C4_SameResultAsBranchAndBound ==
    (results # <<>> /\ LeavesInRange /\ DistinctLeaves) =>
        \A k \in 1..Len(results) :
            /\ results[k].val = results[1].val
            /\ results[k].pv = results[1].pv

\* The root is a leaf of the search.
RootIsLeaf ==
    MAX_DEPTH = 0 \/ get_legal_moves(handler, startpos(handler)) = <<>>

\* C5 as amended: when max_depth is 0 or the root has no legal move, every
\* search returns evaluate(pos, max_depth, max_depth), the depth argument
\* being the depth the search was called with (sss returns EVAL_MAXIMUM
\* where that evaluation is above it), with a PV of empty slots, and
\* counts one leaf.
C5_RootLeaf ==
    RootIsLeaf =>
        \A k \in 1..Len(results) :
            LET eval == evaluate(handler, startpos(handler), MAX_DEPTH,
                                 MAX_DEPTH)
            IN  /\ results[k].val =
                       IF results[k].alg = "sss"
                              /\ eval > EVAL_MAXIMUM(handler)
                       THEN EVAL_MAXIMUM(handler) ELSE eval
                /\ results[k].pv = NoLine(MAX_DEPTH)
                /\ results[k].leaves = 1

\* All six searches have run on a root without a legal move, with a
\* max_depth above 0, on a handler whose evaluation depends on the depth.
C5_Witness ==
    /\ pc = "done"
    /\ Len(results) = 6
    /\ MAX_DEPTH > 0
    /\ get_legal_moves(handler, startpos(handler)) = <<>>
    /\ evaluate(handler, startpos(handler), MAX_DEPTH, MAX_DEPTH)
           # evaluate(handler, startpos(handler), 0, MAX_DEPTH)

\* C5 as stated: the value returned is evaluate(pos, 0, max_depth).
C5_RootLeafAtDepth0 ==
    RootIsLeaf =>
        \A k \in 1..Len(results) :
            /\ results[k].val = evaluate(handler, startpos(handler), 0,
                                         MAX_DEPTH)
            /\ results[k].pv = NoLine(MAX_DEPTH)
            /\ results[k].leaves = 1

\* C6: during and after every search the leaf counter is the counter the
\* search started from plus the number of calls of evaluate made so far;
\* the nested searches (f_alpha_beta, test, the recursive calls) go on
\* from the counter their caller has reached.
C6_OneCountPerEvaluate == leaf_count = lc_before + Len(evals)

\* A search that has evaluated several leaves: scout with its test, and
\* sss in its loop.
C6_Witness ==
    /\ Len(evals) >= 3
    /\ \/ pc = "sss" /\ Ran("scout")
       \/ pc = "sss_loop"

PoppedNow == popped'[1]

\* C8 as amended: each pop removes an entry of maximal merit value, and
\* among the entries of that merit value one of the greatest iteration,
\* that is one of those pushed last.
C8_PopGreatestMeritLatestIteration ==
    [][(pc = "sss_loop" /\ open # <<>>) =>
          /\ \E k \in 1..Len(open) : open[k] = PoppedNow
          /\ \A k \in 1..Len(open) :
                 /\ open[k].merit[1] <= PoppedNow.merit[1]
                 /\ open[k].merit[1] = PoppedNow.merit[1]
                        => open[k].iteration <= PoppedNow.iteration]_vars

\* A pop has been made, and OPEN holds two entries of maximal merit value
\* that were pushed in different iterations.
C8_Witness ==
    /\ pc = "sss_loop"
    /\ popped # None
    /\ \E j, k \in 1..Len(open) :
           /\ open[j].merit[1] = open[k].merit[1]
           /\ open[j].iteration < open[k].iteration
           /\ \A n \in 1..Len(open) : open[n].merit[1] <= open[k].merit[1]

\* C8 as stated: each pop removes the entry of maximal merit value that
\* was inserted earliest; the iterations never decrease in the order of
\* insertion, so no entry of that merit value has a smaller iteration.
C8_PopGreatestMeritEarliest ==
    [][(pc = "sss_loop" /\ open # <<>>) =>
          /\ \E k \in 1..Len(open) : open[k] = PoppedNow
          /\ \A k \in 1..Len(open) :
                 /\ open[k].merit[1] <= PoppedNow.merit[1]
                 /\ open[k].merit[1] = PoppedNow.merit[1]
                        => PoppedNow.iteration <= open[k].iteration]_vars

\* C10: every call of evaluate is on a position at remaining depth 0 or
\* without a legal move.
C10_EvaluateOnlyLeaves ==
    \A k \in 1..Len(evals) :
        evals[k].rem = 0 \/ get_legal_moves(handler, evals[k].pos) = <<>>

\* Calls of evaluate of both kinds have been made: at the horizon, and
\* above it on a position without a legal move; by sss among others.
C10_Witness ==
    /\ pc = "done"
    /\ \E k \in 1..Len(evals) : evals[k].rem = 0
    /\ \E k \in 1..Len(evals) :
           /\ evals[k].rem > 0
           /\ get_legal_moves(handler, evals[k].pos) = <<>>

\* Every internal node of the search from a position enumerates a best
\* child first: no child has a better value for the player to move than
\* the first one.
RECURSIVE BestChildFirst(_, _, _, _)
BestChildFirst(h, pos, depth, MD) ==
    LET moves == get_legal_moves(h, pos)
        value(k) == -Negamax(h, play_move(h, pos, moves[k]), depth - 1, MD)
    IN  IF depth = 0 \/ moves = <<>> THEN TRUE
        ELSE \A k \in 1..Len(moves) :
                 /\ value(k) <= value(1)
                 /\ BestChildFirst(h, play_move(h, pos, moves[k]),
                                   depth - 1, MD)

\* The tree searched is a uniform binary tree of depth 2: the root and
\* both its children have two legal moves each.
UniformBinaryDepth2 ==
    LET root == startpos(handler)
        moves == get_legal_moves(handler, root)
    IN  /\ MAX_DEPTH = 2
        /\ Len(moves) = 2
        /\ \A k \in 1..2 :
               Len(get_legal_moves(handler,
                                   play_move(handler, root, moves[k]))) = 2

\* Every leaf of the tree searched evaluates strictly between
\* EVAL_MINIMUM and EVAL_MAXIMUM.
LeavesInside ==
    \A l \in RootLeafLines :
        /\ LeafValue(l) > EVAL_MINIMUM(handler)
        /\ LeafValue(l) < EVAL_MAXIMUM(handler)

\* What C11 says of the results of sss and alpha_beta.
SssAgainstAlphaBeta ==
    /\ ResultOf("sss").val = ResultOf("alpha_beta").val
    /\ BestChildFirst(handler, startpos(handler), 2, 2) =>
           ResultOf("sss").leaves <= ResultOf("alpha_beta").leaves

LeafPopped ==
    /\ pc = "sss_loop"
    /\ open # <<>>
    /\ PoppedNow.tag = "Live"
    /\ PoppedNow.depth = 0
           \/ get_legal_moves(handler, PoppedNow.node) = <<>>

\* The entry that a step of the loop of sss pushes last.
PushedNow == open'[Len(open')]

\* The evaluation of the leaf popped, as the player to move at the root
\* sees it: negated where the leaf is an odd number of plies below the
\* root.
LeafValueFromRootNow ==
    LET d == PoppedNow.depth
        e == evaluate(handler, PoppedNow.node, d, MAX_DEPTH)
    IN  IF (MAX_DEPTH - d) % 2 = 0 THEN e ELSE -e

\* C12: when sss evaluates a leaf at remaining depth d, on a handler whose
\* leaves evaluate within EVAL_MINIMUM..EVAL_MAXIMUM, the value it takes
\* the minimum of the inherited merit with is the evaluation of the leaf
\* if max_depth - d is even and its negation if max_depth - d is odd.
C12_SssLeafSign ==
    [][(LeafPopped /\ LeavesInRange) =>
          PushedNow.merit[1] =
              IF PoppedNow.merit[1] < LeafValueFromRootNow
              THEN PoppedNow.merit[1] ELSE LeafValueFromRootNow]_vars

\* C13: on a handler whose leaves evaluate within
\* EVAL_MINIMUM..EVAL_MAXIMUM, each of the five recursive algorithms,
\* called at the root, returns the exact negamax value of the root.
C13_RecursiveSearchesReturnNegamax ==
    (results # <<>> /\ LeavesInRange) =>
        \A k \in 1..Len(results) :
            results[k].alg # "sss" => results[k].val = RootValue

\* The five have run on a tree that has leaves at different plies, of
\* different values.
C13_Witness ==
    /\ Len(results) >= 5
    /\ LeavesInRange
    /\ \E l1, l2 \in RootLeafLines :
           /\ Len(l1) # Len(l2)
           /\ LeafValue(l1) # LeafValue(l2)


---------------------------------------------------------------------------
(* The window searches, one call at a time. *)

\* The call made, with what it returned.
TheCall == results[1]

CalledWith(alg) == pc = "called" /\ TheCall.alg = alg

\* The exact negamax value of the node of the call.
CallNegamax == Negamax(handler, TheCall.pos, TheCall.depth, MAX_DEPTH)

CallMoves == get_legal_moves(handler, TheCall.pos)

\* The node of the call has a legal move and depth > 0.
CallIsInternal == TheCall.depth > 0 /\ CallMoves # <<>>

\* The nodes of the subtree of the k-th child of the node of the call.
CallChildNodes(k) ==
    Nodes(handler, play_move(handler, TheCall.pos, CallMoves[k]),
          TheCall.depth - 1)

\* Every evaluation of the call was of a node under a child that satisfies
\* Upto.
EvaluatedOnlyUnder(Upto(_)) ==
    \A e \in 1..Len(evals) :
        \E k \in 1..Len(CallMoves) :
            /\ Upto(k)
            /\ [pos |-> evals[e].pos, depth |-> evals[e].rem]
                   \in CallChildNodes(k)

\* The k-th child of the node of the call is worth at least beta to the
\* player to move at the node.
ChildReachesBeta(k) ==
    -Negamax(handler, play_move(handler, TheCall.pos, CallMoves[k]),
             TheCall.depth - 1, MAX_DEPTH) >= TheCall.beta

\* No child before the k-th reaches beta, the k-th does or is not there.
UptoCutoffChild(k) == \A j \in 1..(k - 1) : ~ChildReachesBeta(j)

\* C14, without "exactly when": a call of alpha_beta with alpha < beta on a
\* node of exact negamax value n returns n if alpha < n < beta, a value from
\* beta to n if n >= beta, and a value from n to alpha if n <= alpha, which
\* is alpha when the node has a legal move and depth > 0 and n at a leaf;
\* and it evaluates nothing under a child that comes after the first child
\* that raises the running best to beta or more.
C14_AlphaBetaWindow ==
    CalledWith("alpha_beta") =>
        /\ (TheCall.alpha < CallNegamax /\ CallNegamax < TheCall.beta)
               => TheCall.val = CallNegamax
        /\ CallNegamax >= TheCall.beta
               => /\ TheCall.beta <= TheCall.val
                  /\ TheCall.val <= CallNegamax
        /\ CallNegamax <= TheCall.alpha
               => /\ CallNegamax <= TheCall.val
                  /\ TheCall.val <= TheCall.alpha
                  /\ CallIsInternal => TheCall.val = TheCall.alpha
        /\ ~CallIsInternal => TheCall.val = CallNegamax
        /\ CallIsInternal => EvaluatedOnlyUnder(UptoCutoffChild)

\* alpha_beta was cut off at a child that is not the last, two plies above
\* the horizon, and left a leaf out.
C14_Witness ==
    /\ CalledWith("alpha_beta")
    /\ CallIsInternal
    /\ TheCall.depth = 2
    /\ CallNegamax > TheCall.beta
    /\ \E k \in 1..(Len(CallMoves) - 1) : ChildReachesBeta(k)
    /\ Len(evals) < Cardinality(LeafLines(handler, TheCall.pos, TheCall.depth))

\* C14 as it is written: when n <= alpha, the value returned is alpha
\* exactly when the node has a legal move and depth > 0.
C14_AlphaExactlyAtInternalNodes ==
    (CalledWith("alpha_beta") /\ CallNegamax <= TheCall.alpha)
        => (TheCall.val = TheCall.alpha <=> CallIsInternal)


\* The contract of a fail-soft search: a value returned at or below alpha
\* is an upper bound of the exact negamax value n of the node, a value at
\* or above beta is a lower bound, and a value in between is n.
FailSoftContract ==
    /\ TheCall.val <= TheCall.alpha => CallNegamax <= TheCall.val
    /\ TheCall.val >= TheCall.beta => CallNegamax >= TheCall.val
    /\ (TheCall.alpha < TheCall.val /\ TheCall.val < TheCall.beta)
           => TheCall.val = CallNegamax

\* C15: a call of pvs with alpha < beta on a node of exact negamax value n
\* returns an upper bound of n if it returns alpha or less, a lower bound
\* of n if it returns beta or more, and n otherwise; also when the probe of
\* a later child returns t >= beta and the child is searched again with
\* the window [-beta, -t].
C15_PvsWindow == CalledWith("pvs") => FailSoftContract

\* The probe of the second child, after the first child left m < beta.
SecondChildProbe ==
    LET first == pvs(Sr, handler,
                     play_move(handler, TheCall.pos, CallMoves[1]),
                     TheCall.depth - 1, -TheCall.beta, -TheCall.alpha,
                     MAX_DEPTH)
        bound == Max(-first.val, TheCall.alpha)
        probe == pvs(first.sr, handler,
                     play_move(handler, TheCall.pos, CallMoves[2]),
                     TheCall.depth - 1, -bound - EVAL_EPSILON(handler),
                     -bound, MAX_DEPTH)
    IN  [m |-> -first.val, t |-> -probe.val]

\* pvs was called two plies above the horizon, and the probe of the second
\* child returned t >= beta, so that the child, which has legal moves, was
\* searched again with the window [-beta, -t].
C15_Witness ==
    /\ CalledWith("pvs")
    /\ TheCall.depth = 2
    /\ Len(CallMoves) >= 2
    /\ get_legal_moves(handler,
                       play_move(handler, TheCall.pos, CallMoves[2])) # <<>>
    /\ SecondChildProbe.m < TheCall.beta
    /\ SecondChildProbe.t > SecondChildProbe.m
    /\ SecondChildProbe.t >= TheCall.beta
    /\ TheCall.val >= TheCall.beta


\* C16: a call of f_alpha_beta with alpha < beta on a node of exact negamax
\* value n returns an upper bound of n if it returns alpha or less, a lower
\* bound of n if it returns beta or more, and n otherwise; the running best
\* starts at EVAL_MINIMUM, so that a node with a legal move may return less
\* than alpha.
C16_FailSoftWindow == CalledWith("f_alpha_beta") => FailSoftContract

\* f_alpha_beta returned less than alpha, the exact value, at a node two
\* plies above the horizon.
C16_Witness ==
    /\ CalledWith("f_alpha_beta")
    /\ CallIsInternal
    /\ TheCall.depth = 2
    /\ TheCall.val < TheCall.alpha
    /\ TheCall.alpha > EVAL_MINIMUM(handler)
    /\ TheCall.val = CallNegamax


\* The threshold and the polarity of a call of test.
TestV == TheCall.alpha
TestOp == TheCall.beta

\* The nested test of the k-th child, with the threshold -v and the
\* polarity inverted, is false: its exact negamax value is not >= -v when
\* op is false, and not > -v when op is true.
NestedTestFalse(k) ==
    LET n == Negamax(handler, play_move(handler, TheCall.pos, CallMoves[k]),
                     TheCall.depth - 1, MAX_DEPTH)
    IN  IF TestOp THEN ~(n > -TestV) ELSE ~(n >= -TestV)

\* The nested test of no child before the k-th is false.
UptoFirstFalse(k) == \A j \in 1..(k - 1) : ~NestedTestFalse(j)

\* C17: test(pos, depth, v, op) is true iff the exact negamax value n of
\* the position at that depth is >= v when op is true and > v when op is
\* false; at a node with a legal move and depth > 0 it is true iff the
\* nested test of a child is false, and it evaluates nothing under a child
\* that comes after the first such child.
C17_FeasibilityTest ==
    CalledWith("test") =>
        /\ TheCall.val <=> IF TestOp THEN CallNegamax >= TestV
                                      ELSE CallNegamax > TestV
        /\ CallIsInternal =>
               /\ TheCall.val <=>
                      \E k \in 1..Len(CallMoves) : NestedTestFalse(k)
               /\ EvaluatedOnlyUnder(UptoFirstFalse)

\* test returned true at a child that is not the last, two plies above the
\* horizon, and left a leaf out.
C17_Witness ==
    /\ CalledWith("test")
    /\ CallIsInternal
    /\ TheCall.depth = 2
    /\ TheCall.val
    /\ \E k \in 1..(Len(CallMoves) - 1) : NestedTestFalse(k)
    /\ Len(evals) < Cardinality(LeafLines(handler, TheCall.pos, TheCall.depth))
    /\ CallNegamax = TestV


---------------------------------------------------------------------------
(* The cases of the loop of sss, one step at a time. *)

\* A step of the loop of sss pops a Solved entry below the root and goes
\* on.
SolvedPopped ==
    /\ pc = "sss_loop"
    /\ pc' = "sss_loop"
    /\ open # <<>>
    /\ PoppedNow.tag = "Solved"
    /\ PoppedNow.depth < MAX_DEPTH

\* The number of moves from the root to the parent of the popped entry:
\* max_depth - d - 1.
ParentPathLength == MAX_DEPTH - PoppedNow.depth - 1

\* The parent of the node of the popped entry.
ParentNow ==
    Replay(handler, startpos(handler), PoppedNow.line, 1, ParentPathLength)

\* OPEN before the step, without the entry popped.
RestNow ==
    RemoveAt(open, CHOOSE k \in 1..Len(open) : open[k] = PoppedNow)

\* The line of an entry differs from the line of the popped entry in one of
\* the first max_depth - d - 1 slots.
DiffersFromPoppedLine(e) ==
    \E k \in 1..ParentPathLength : e.line[k] # PoppedNow.line[k]

\* An entry is inside the subtree of the parent of the popped entry: it is
\* no higher than the parent, and the moves that lead to it begin with the
\* moves that lead to the parent.
InParentSubtree(e) ==
    /\ e.depth <= PoppedNow.depth + 1
    /\ \A k \in 1..ParentPathLength : e.line[k] = PoppedNow.line[k]

\* C18: after a Solved entry of a Min-type node at remaining depth
\* d < max_depth is popped, OPEN consists of the entries it held before
\* whose line differs from the line of the popped entry in one of the first
\* max_depth - d - 1 slots, unchanged, and of one new Solved entry for the
\* parent at depth d + 1 with the popped merit; the entries removed are the
\* entries inside the subtree of the parent.
C18_Case1Frame ==
    [][(SolvedPopped /\ ~is_max_player(PoppedNow, MAX_DEPTH)) =>
           /\ open' = Append(SelectSeq(RestNow, DiffersFromPoppedLine),
                             PushedNow)
           /\ PushedNow.tag = "Solved"
           /\ PushedNow.node = ParentNow
           /\ PushedNow.depth = PoppedNow.depth + 1
           /\ PushedNow.merit = PoppedNow.merit
           /\ \A k \in 1..Len(RestNow) :
                  InParentSubtree(RestNow[k])
                      <=> ~DiffersFromPoppedLine(RestNow[k])]_vars

\* A Solved entry of a Min-type node whose parent is not the root was
\* popped, the Solved entry of the parent was pushed, and entries outside
\* the subtree of the parent are still in OPEN.
C18_Witness ==
    /\ pc = "sss_loop"
    /\ popped # None
    /\ popped[1].tag = "Solved"
    /\ ~is_max_player(popped[1], MAX_DEPTH)
    /\ MAX_DEPTH - popped[1].depth - 1 >= 1
    /\ Len(open) >= 2
    /\ open[Len(open)].tag = "Solved"
    /\ open[Len(open)].depth = popped[1].depth + 1
    /\ open[Len(open)].iteration = i - 1


\* A step of the loop of sss pops a Live entry with remaining depth d > 0
\* and a legal move.
LivePopped ==
    /\ pc = "sss_loop"
    /\ open # <<>>
    /\ PoppedNow.tag = "Live"
    /\ PoppedNow.depth > 0
    /\ get_legal_moves(handler, PoppedNow.node) # <<>>

\* The legal moves of the node of the popped entry.
PoppedMoves == get_legal_moves(handler, PoppedNow.node)

\* The j-th entry that the step pushed.
PushedEntry(j) == open'[Len(RestNow) + j]

\* C19: popping a Live entry with remaining depth d > 0 and a legal move
\* pushes one Live entry per legal child where max_depth - d is even, and
\* one Live entry, for the first legal child, where max_depth - d is odd;
\* every entry pushed has the depth d - 1, the merit of the popped entry
\* and its line with the move to the child in slot max_depth - d; nothing
\* else of OPEN changes.
C19_Expansion ==
    [][LivePopped =>
           /\ Len(open') = Len(RestNow)
                  + IF (MAX_DEPTH - PoppedNow.depth) % 2 = 0
                    THEN Len(PoppedMoves) ELSE 1
           /\ \A k \in 1..Len(RestNow) : open'[k] = RestNow[k]
           /\ \A j \in 1..(Len(open') - Len(RestNow)) :
                  /\ PushedEntry(j).tag = "Live"
                  /\ PushedEntry(j).node =
                         play_move(handler, PoppedNow.node, PoppedMoves[j])
                  /\ PushedEntry(j).depth = PoppedNow.depth - 1
                  /\ PushedEntry(j).merit = PoppedNow.merit
                  /\ PushedEntry(j).line =
                         [PoppedNow.line
                              EXCEPT ![MAX_DEPTH - PoppedNow.depth + 1] =
                                         Some(PoppedMoves[j])]]_vars

\* A Live entry of a Min-type node with two legal moves or more was
\* popped, and one Live entry, for its first child, was pushed.
C19_Witness ==
    /\ pc = "sss_loop"
    /\ popped # None
    /\ popped[1].tag = "Live"
    /\ popped[1].depth > 0
    /\ (MAX_DEPTH - popped[1].depth) % 2 = 1
    /\ Len(get_legal_moves(handler, popped[1].node)) >= 2
    /\ Cardinality({k \in 1..Len(open) : open[k].iteration = i - 1}) = 1
    /\ open[Len(open)].tag = "Live"
    /\ open[Len(open)].node =
           play_move(handler, popped[1].node,
                     get_legal_moves(handler, popped[1].node)[1])


\* The legal moves of the parent of the node of the popped entry.
ParentMoves == get_legal_moves(handler, ParentNow)

\* The place, among the legal moves of the parent, of the move that led to
\* the node of the popped entry: the move in slot max_depth - d - 1 of its
\* line.
PlaceOfPoppedMove ==
    CHOOSE k \in 1..Len(ParentMoves) :
        Some(ParentMoves[k]) = PoppedNow.line[ParentPathLength + 1]

\* C20: after a Solved entry of a Max-type node at remaining depth
\* d < max_depth is popped, nothing else of OPEN changes and one entry is
\* pushed, with the popped merit: if the parent has a legal move after the
\* move that led to the node, a Live entry for that next sibling, with the
\* depth d and a line whose slots after max_depth - d - 1 are empty;
\* otherwise a Solved entry for the parent, with the depth d + 1.
C20_Cases2And3 ==
    [][(SolvedPopped /\ is_max_player(PoppedNow, MAX_DEPTH)) =>
           /\ open' = Append(RestNow, PushedNow)
           /\ PushedNow.merit = PoppedNow.merit
           /\ IF PlaceOfPoppedMove < Len(ParentMoves)
              THEN /\ PushedNow.tag = "Live"
                   /\ PushedNow.node =
                          play_move(handler, ParentNow,
                                    ParentMoves[PlaceOfPoppedMove + 1])
                   /\ PushedNow.depth = PoppedNow.depth
                   /\ PushedNow.line =
                          [k \in 1..MAX_DEPTH |->
                              IF k <= ParentPathLength THEN PoppedNow.line[k]
                              ELSE IF k = ParentPathLength + 1
                              THEN Some(ParentMoves[PlaceOfPoppedMove + 1])
                              ELSE None]
              ELSE /\ PushedNow.tag = "Solved"
                   /\ PushedNow.node = ParentNow
                   /\ PushedNow.depth = PoppedNow.depth + 1]_vars


\* C21: popping a Live entry that is a leaf, with the inherited merit
\* (h, pv) and the sign-adjusted evaluation e of the leaf, pushes one Solved
\* entry, for the same node and depth, and changes nothing else of OPEN;
\* the merit of the entry is (h, pv) when h < e, and e with the line of the
\* leaf when e <= h.
C21_LeafRule ==
    [][(LeafPopped /\ LeavesInRange) =>
           /\ open' = Append(RestNow, PushedNow)
           /\ PushedNow.tag = "Solved"
           /\ PushedNow.node = PoppedNow.node
           /\ PushedNow.depth = PoppedNow.depth
           /\ PushedNow.merit =
                  IF PoppedNow.merit[1] < LeafValueFromRootNow
                  THEN PoppedNow.merit
                  ELSE <<LeafValueFromRootNow, PoppedNow.line>>]_vars


\* C22: every call of evaluate, by any of the algorithms, is given the
\* remaining depth of the position it evaluates as its depth argument and
\* the max_depth of the search as its maximum-depth argument.
C22_EvaluateArguments ==
    \A k \in 1..Len(evals) :
        /\ evals[k].depth = evals[k].rem
        /\ evals[k].max_depth = MAX_DEPTH


\* C23: whenever the loop of sss, started with depth == max_depth, is about
\* to pop, OPEN is not empty: it holds at least the entry that the step
\* before pushed, after its purge if it made one.
C23_OpenNeverEmpty ==
    pc = "sss_loop" =>
        /\ open # <<>>
        /\ open[Len(open)].iteration = i - 1

\* A Solved entry of a child of the root, a Min-type node, was popped: all
\* of OPEN was purged, and the Solved entry of the root pushed after the
\* purge is all that OPEN holds.
C23_Witness ==
    /\ pc = "sss_loop"
    /\ popped # None
    /\ popped[1].tag = "Solved"
    /\ popped[1].depth = MAX_DEPTH - 1
    /\ Len(get_legal_moves(handler, startpos(handler))) >= 2
    /\ Len(open) = 1
    /\ open[1].tag = "Solved"
    /\ open[1].depth = MAX_DEPTH


\* The number of the non-empty slots of a line.
MovesOf(line) == Cardinality({k \in 1..Len(line) : line[k] # None})

\* The position that the first n moves of a line lead to from the root.
RECURSIVE AfterMoves(_, _)
AfterMoves(line, n) ==
    IF n = 0 THEN startpos(handler)
    ELSE play_move(handler, AfterMoves(line, n - 1), line[n][1])

\* A line is a legal path from the root to a leaf: its non-empty slots are
\* its first slots, each move is a legal move of the position that the
\* moves before it lead to, and the position that the last move leads to
\* is at remaining depth 0 or has no legal move.
IsPathToLeaf(line) ==
    LET n == MovesOf(line)
    IN  /\ \A k \in 1..n : line[k] # None
        /\ \A k \in 1..n :
               \E j \in 1..Len(get_legal_moves(handler,
                                               AfterMoves(line, k - 1))) :
                   get_legal_moves(handler, AfterMoves(line, k - 1))[j]
                       = line[k][1]
        /\ \/ n = MAX_DEPTH
           \/ get_legal_moves(handler, AfterMoves(line, n)) = <<>>

\* C24: where the root is not a leaf and the leaves evaluate within
\* EVAL_MINIMUM..EVAL_MAXIMUM, the PV that each of the six algorithms
\* returns at the root is a legal path from the root to a leaf.
C24_PvIsPathToLeaf ==
    (~RootIsLeaf /\ LeavesInRange) =>
        \A k \in 1..Len(results) : IsPathToLeaf(results[k].pv)


\* C25: the Live entry that Case 2 of sss pushes is for the legal move of
\* the parent that comes next after the move by which the solved node was
\* reached, the move in slot max_depth - d - 1 of its line.
C25_NextSiblingByMove ==
    [][(/\ SolvedPopped
        /\ is_max_player(PoppedNow, MAX_DEPTH)
        /\ PushedNow.tag = "Live") =>
           /\ PlaceOfPoppedMove < Len(ParentMoves)
           /\ PushedNow.line[ParentPathLength + 1] =
                  Some(ParentMoves[PlaceOfPoppedMove + 1])
           /\ PushedNow.node =
                  play_move(handler, ParentNow,
                            ParentMoves[PlaceOfPoppedMove + 1])]_vars


\* The legal moves of the root, and what the k-th is worth to the player to
\* move at the root.
RootMoves == get_legal_moves(handler, startpos(handler))

RootChildValue(k) ==
    -Negamax(handler, play_move(handler, startpos(handler), RootMoves[k]),
             MAX_DEPTH - 1, MAX_DEPTH)

\* The first of the children of the root that are worth the most.
FirstBestRootChild ==
    CHOOSE k \in 1..Len(RootMoves) :
        /\ \A j \in 1..Len(RootMoves) : RootChildValue(j) <= RootChildValue(k)
        /\ \A j \in 1..(k - 1) : RootChildValue(j) < RootChildValue(k)

\* The last of the children of the root that are worth the most.
LastBestRootChild ==
    CHOOSE k \in 1..Len(RootMoves) :
        /\ \A j \in 1..Len(RootMoves) : RootChildValue(j) <= RootChildValue(k)
        /\ \A j \in (k + 1)..Len(RootMoves) :
               RootChildValue(j) < RootChildValue(k)

\* C26 as amended: scout searches a later child again when the child is
\* worth at least as much as the running best, so a replacement never
\* lowers the running best, the value returned is the negamax value of the
\* root, and the PV returned at a root that is not a leaf begins with the
\* last, in enumeration order, of the children that are worth the most.
C26_ScoutKeepsLastBest ==
    (Ran("scout") /\ ~RootIsLeaf /\ LeavesInRange) =>
        /\ ResultOf("scout").val = RootValue
        /\ ResultOf("scout").pv[1] = Some(RootMoves[LastBestRootChild])

\* scout ran two plies or more above the horizon on a root whose first
\* child and a later child are worth the most, and its PV begins with the
\* later one.
C26_Witness ==
    /\ Ran("scout")
    /\ ~RootIsLeaf
    /\ LeavesInRange
    /\ MAX_DEPTH >= 2
    /\ get_legal_moves(handler,
             play_move(handler, startpos(handler),
                       RootMoves[LastBestRootChild])) # <<>>
    /\ FirstBestRootChild = 1
    /\ LastBestRootChild > 1
    /\ ResultOf("scout").pv[1] = Some(RootMoves[LastBestRootChild])

\* C26 as it is written: scout replaces its running best and its PV by a
\* later child only when the child is worth strictly more, so the PV it
\* returns at a root that is not a leaf begins with the first, in
\* enumeration order, of the children that are worth the most.
C26_ScoutKeepsFirstBest ==
    (Ran("scout") /\ ~RootIsLeaf /\ LeavesInRange) =>
        ResultOf("scout").pv[1] = Some(RootMoves[FirstBestRootChild])


\* C27: the iteration tags of the entries that OPEN holds at one time are
\* pairwise distinct, so that no two entries of OPEN compare as equal.
C27_TagsDistinct ==
    \A j, k \in 1..Len(open) :
        j # k => /\ open[j].iteration # open[k].iteration
                 /\ cmp(open[j], open[k]) # "Equal"


\* A step of the loop of sss pops an entry and goes on.
PoppedAndWentOn ==
    /\ pc = "sss_loop"
    /\ pc' = "sss_loop"
    /\ open # <<>>

\* C28: every entry that a step of the loop of sss pushes has a merit value
\* that is at most the merit value of the entry the step popped; no entry
\* of OPEN, and so no entry popped, has a merit value above EVAL_MAXIMUM,
\* and none has a merit value above that of the entry popped last.
C28_MeritsNeverIncrease ==
    [][PoppedAndWentOn =>
           /\ \A k \in 1..Len(open') :
                  open'[k].iteration = i
                      => open'[k].merit[1] <= PoppedNow.merit[1]
           /\ \A k \in 1..Len(open') :
                  /\ open'[k].merit[1] <= PoppedNow.merit[1]
                  /\ open'[k].merit[1] <= EVAL_MAXIMUM(handler)]_vars

\* A leaf was solved with a merit value below the merit value it had
\* inherited, while OPEN held another entry.
C28_Witness ==
    /\ pc = "sss_loop"
    /\ popped # None
    /\ popped[1].tag = "Live"
    /\ Len(open) >= 2
    /\ open[Len(open)].tag = "Solved"
    /\ open[Len(open)].iteration = i - 1
    /\ open[Len(open)].merit[1] < popped[1].merit[1]
    /\ open[Len(open)].merit[1] < EVAL_MAXIMUM(handler)


\* The moves from the root to the node of an entry of OPEN: the first
\* max_depth - d slots of its line.
PathOf(e) == SubSeq(e.line, 1, MAX_DEPTH - e.depth)

\* The path p leads to the node that q leads to, or to an ancestor of it.
IsPrefix(p, q) ==
    /\ Len(p) <= Len(q)
    /\ \A k \in 1..Len(p) : p[k] = q[k]

\* C29: no two entries of OPEN are for the same node of the tree, and none
\* is for an ancestor of the node of another.
C29_OpenIsAntichain ==
    \A j, k \in 1..Len(open) :
        j # k => ~IsPrefix(PathOf(open[j]), PathOf(open[k]))

\* OPEN holds entries at different depths of a tree of three plies or
\* more, one of them Solved.
C29_Witness ==
    /\ pc = "sss_loop"
    /\ MAX_DEPTH >= 3
    /\ Len(open) >= 3
    /\ \E j, k \in 1..Len(open) :
           /\ open[j].depth < open[k].depth
           /\ open[j].tag = "Solved"
           /\ open[k].tag = "Live"


\* C30: in sss started with depth == max_depth, the first max_depth - d
\* slots of the line of every entry of OPEN with remaining depth d hold a
\* move, and these moves, played in order from the root, lead to the node
\* of the entry; the replay of the line of a Solved entry to its parent
\* never finds an empty slot.
C30_LinesLeadToNodes ==
    /\ pc # "panic"
    /\ \A k \in 1..Len(open) :
           /\ CanReplay(open[k].line, MAX_DEPTH - open[k].depth)
           /\ Replay(handler, startpos(handler), open[k].line, 1,
                     MAX_DEPTH - open[k].depth) = open[k].node

\* OPEN holds the Solved entry of a node below the root that is not a
\* leaf, whose line still has the moves below the node, next to another
\* entry.
C30_Witness ==
    /\ pc = "sss_loop"
    /\ Len(open) >= 2
    /\ \E k \in 1..Len(open) :
           /\ open[k].tag = "Solved"
           /\ open[k].depth >= 1
           /\ open[k].depth < MAX_DEPTH
           /\ open[k].line[MAX_DEPTH - open[k].depth + 1] # None

=============================================================================
